---- MODULE Spec2Model ----
(***************************************************************************)
(* Swift backend of aptly's PublishedStorage (package swift).              *)
(*                                                                         *)
(* A container is a flat map from object names to object contents.  Paths  *)
(* are sequences of path segments: filepath.Join of clean paths is the     *)
(* concatenation of their segments, filepath.Base the last segment.  The   *)
(* calls of the Swift client library are modelled by what the library      *)
(* does on the container: Object (HEAD), ObjectPut (PUT), ObjectDelete     *)
(* (DELETE, ObjectNotFound when the object is absent), ObjectsAll (the     *)
(* whole container listing, ordered by name) and ObjectMove (ObjectCopy    *)
(* followed by ObjectDelete of the source).  Every library call may also   *)
(* fail for a transport reason, which leaves the container untouched.      *)
(*                                                                         *)
(* The module also holds the publish operation that drives the storage     *)
(* (Staging, Populated, Verified, Promoted, Purging, Done or Failed), as   *)
(* documented, and the route table of the HTTP API (package api).          *)
(***************************************************************************)
EXTENDS Integers, Sequences, FiniteSets, TLC

VARIABLES store, last, pc

vars == <<store, last, pc>>

\* ------------------------------------------------------------------ bounds

\* Largest number of objects the container holds in the model.
MaxObjects == 2

\* ------------------------------------------------------- values and inputs

\* Path segments, in the byte order of their names.
SegOrder == <<"Release", "a", "b", "d", "f", "g", "p1", "p2", "p3", "p4">>

\* Root prefixes given to NewPublishedStorage: "/", "" and "a".
RawPrefixes == {"/", "", "a"}

\* Logical directories and file paths the callers use.
Dirs == {<<>>, <<"d">>}

LPaths == {<<"f">>, <<"g">>, <<"d", "f">>, <<"d", "g">>}

\* Files of the local package pool: path -> content.  <<"p4", "f">> is a
\* pool path whose file is missing on disk.
PoolFiles ==
  (<<"p1", "f">> :> "c1") @@ (<<"p2", "f">> :> "c2") @@
  (<<"p3", "f">> :> "c3") @@ (<<"p1", "g">> :> "c1")

SourcePaths == DOMAIN PoolFiles \cup {<<"p4", "f">>}

\* The snapshots that get published: name -> pool paths of its packages.
\* S2 replaces the package f of S1 by another build of the same file name;
\* S3 drops it.
Snapshots ==
  [S1 |-> <<<<"p1", "f">>, <<"p1", "g">>>>,
   S2 |-> <<<<"p2", "f">>, <<"p1", "g">>>>,
   S3 |-> <<<<"p1", "g">>>>]

\* The index file the metadata generator writes for a snapshot; its
\* content is named after the snapshot.
IndexFile(snapshot) == <<"idx", snapshot>>

IndexFiles == [file \in {IndexFile(sn) : sn \in DOMAIN Snapshots} |-> file[2]]

\* The local files PutFile can open.
LocalFiles == PoolFiles @@ IndexFiles

\* MD5 digest of a content, as a string of characters (one per element).
\* c2 and c3 are two contents with the same digest.
MD5(c) == IF c = "c1" THEN <<"h1">> ELSE <<"h2">>

\* Checksum recorded in the pool entry of a source path: the digest of the
\* file's content (the entry of the missing file records h1).
PoolMD5(sourcePath) ==
  IF sourcePath \in DOMAIN LocalFiles THEN MD5(LocalFiles[sourcePath]) ELSE <<"h1">>

\* Error values: nil, or an error with its kind and the values its message
\* is formatted from.
Nil == [kind |-> "nil", args |-> <<>>]

Errorf(kind, args) == [kind |-> kind, args |-> args]

ObjectNotFound == Errorf("ObjectNotFound", <<>>)

TransportError == Errorf("transport", <<>>)

\* ------------------------------------------------------------ path helpers

\* filepath.Join of two clean relative paths.
Join(a, b) == a \o b

\* filepath.Base of a non-empty clean path.
Base(p) == p[Len(p)]

\* NewPublishedStorage: the prefix field of the storage built for a raw
\* prefix; "/" becomes the empty prefix.
NewPublishedStorage(raw) ==
  LET prefix == IF raw = "" THEN <<>> ELSE <<raw>>
  IN  IF prefix = <<"/">> THEN <<>> ELSE prefix

Storages == {NewPublishedStorage(raw) : raw \in RawPrefixes}

\* Two storages on one container whose root prefixes "a" and "b" are
\* different and not nested.
IsoRawPrefixes == {"a", "b"}

IsoStorages == {NewPublishedStorage(raw) : raw \in IsoRawPrefixes}

\* Position of a segment in the byte order of names.
Rank(s) == CHOOSE i \in 1..Len(SegOrder) : SegOrder[i] = s

\* Order of object names in a container listing.
RECURSIVE NameLess(_, _)
NameLess(k1, k2) ==
  IF k1 = <<>> THEN k2 # <<>>
  ELSE IF k2 = <<>> THEN FALSE
  ELSE IF Head(k1) = Head(k2) THEN NameLess(Tail(k1), Tail(k2))
  ELSE Rank(Head(k1)) < Rank(Head(k2))

RECURSIVE SortedNames(_)
SortedNames(S) ==
  IF S = {} THEN <<>>
  ELSE LET m == CHOOSE k \in S : \A o \in S \ {k} : NameLess(k, o)
       IN  <<m>> \o SortedNames(S \ {m})

Range(s) == {s[i] : i \in 1..Len(s)}

\* ----------------------------------------------------- Swift client library

\* swift.Connection.Object: the object's information or an error.
\* The store reports the digest either bare or wrapped in double quotes.
SwiftObject(st, name, fails, quoted) ==
  IF fails THEN [err |-> TransportError, Hash |-> <<>>]
  ELSE IF name \notin DOMAIN st THEN [err |-> ObjectNotFound, Hash |-> <<>>]
  ELSE [err |-> Nil,
        Hash |-> IF quoted THEN <<"\"">> \o MD5(st[name]) \o <<"\"">>
                 ELSE MD5(st[name])]

\* swift.Connection.ObjectPut: create or replace one object.
SwiftObjectPut(st, name, content, fails) ==
  IF fails THEN [store |-> st, err |-> TransportError]
  ELSE [store |-> [k \in DOMAIN st \cup {name} |->
                     IF k = name THEN content ELSE st[k]],
        err |-> Nil]

\* swift.Connection.ObjectDelete: delete one object.
SwiftObjectDelete(st, name, fails) ==
  IF fails THEN [store |-> st, err |-> TransportError]
  ELSE IF name \notin DOMAIN st THEN [store |-> st, err |-> ObjectNotFound]
  ELSE [store |-> [k \in DOMAIN st \ {name} |-> st[k]], err |-> Nil]

\* swift.Connection.ObjectCopy: server side copy of one object.
SwiftObjectCopy(st, src, dst, fails) ==
  IF fails THEN [store |-> st, err |-> TransportError]
  ELSE IF src \notin DOMAIN st THEN [store |-> st, err |-> ObjectNotFound]
  ELSE SwiftObjectPut(st, dst, st[src], FALSE)

\* swift.Connection.ObjectsAll with nil options: every object of the
\* container, ordered by name.
SwiftObjectsAll(st, fails) ==
  IF fails THEN [objects |-> <<>>, err |-> TransportError]
  ELSE [objects |-> SortedNames(DOMAIN st), err |-> Nil]

\* ------------------------------------------------------- PublishedStorage

\* The container with no object.
EmptyStore == [k \in {} |-> "c1"]

\* Variant of StripQuotes that leaves the quotes in place.
StripQuotes_Kept(hash) == hash

\* strings.Replace(hash, "\"", "", -1)
StripQuotes(hash) == SelectSeq(hash, LAMBDA ch : ch # "\"")

\* Variant of PutFile that uploads to path, without the root prefix.
PutFile_NoPrefix(st, prefix, path, sourceFilename, putFails) ==
  IF sourceFilename \notin DOMAIN LocalFiles
  THEN [store |-> st, err |-> Errorf("open", <<sourceFilename>>)]
  ELSE LET r == SwiftObjectPut(st, path, LocalFiles[sourceFilename], putFails)
       IN  IF r.err # Nil
           THEN [store |-> r.store,
                 err |-> Errorf("uploading", <<sourceFilename, prefix, r.err>>)]
           ELSE [store |-> r.store, err |-> Nil]

\* PutFile: open the local file, then ObjectPut it at prefix/path.
PutFile(st, prefix, path, sourceFilename, putFails) ==
  IF sourceFilename \notin DOMAIN LocalFiles
  THEN [store |-> st, err |-> Errorf("open", <<sourceFilename>>)]
  ELSE LET r == SwiftObjectPut(st, Join(prefix, path),
                               LocalFiles[sourceFilename], putFails)
       IN  IF r.err # Nil
           THEN [store |-> r.store,
                 err |-> Errorf("uploading", <<sourceFilename, prefix, r.err>>)]
           ELSE [store |-> r.store, err |-> Nil]

\* Remove: ObjectDelete of prefix/path.
Remove(st, prefix, path, deleteFails) ==
  LET r == SwiftObjectDelete(st, Join(prefix, path), deleteFails)
  IN  IF r.err # Nil
      THEN [store |-> r.store, err |-> Errorf("deleting", <<path, prefix, r.err>>)]
      ELSE [store |-> r.store, err |-> Nil]

\* The listing prefix Filelist computes: prefix/pfx with a trailing slash
\* (an empty last segment) unless it is empty.
ListPrefix(prefix, pfx) ==
  LET p == Join(prefix, pfx)
  IN  IF p # <<>> THEN Append(p, "") ELSE p

\* Filelist: the names of the objects ObjectsAll returns.
Filelist(st, prefix, pfx, listFails) ==
  LET r == SwiftObjectsAll(st, listFails)
  IN  IF r.err # Nil
      THEN [list |-> <<>>,
            err |-> Errorf("listing", <<ListPrefix(prefix, pfx), prefix, r.err>>)]
      ELSE [list |-> r.objects, err |-> Nil]

\* Variant of RemoveLoop that leaves the loop one entry early.
RECURSIVE RemoveLoop_OneShort(_, _, _, _, _, _)
RemoveLoop_OneShort(st, prefix, filelist, i, failNames, attempted) ==
  IF i >= Len(filelist)
  THEN [store |-> st, err |-> Nil, attempted |-> attempted]
  ELSE LET filename == filelist[i]
           r == Remove(st, prefix, filename, filename \in failNames)
       IN  IF r.err # Nil
           THEN [store |-> r.store, err |-> r.err,
                 attempted |-> Append(attempted, filename)]
           ELSE RemoveLoop_OneShort(r.store, prefix, filelist, i + 1,
                                    failNames, Append(attempted, filename))

\* The loop of RemoveDirs over filelist from position i on.  failNames are
\* the listed names whose ObjectDelete fails for a transport reason;
\* attempted collects the names Remove was called with.
RECURSIVE RemoveLoop(_, _, _, _, _, _)
RemoveLoop(st, prefix, filelist, i, failNames, attempted) ==
  IF i > Len(filelist)
  THEN [store |-> st, err |-> Nil, attempted |-> attempted]
  ELSE LET filename == filelist[i]
           r == Remove(st, prefix, filename, filename \in failNames)
       IN  IF r.err # Nil
           THEN [store |-> r.store, err |-> r.err,
                 attempted |-> Append(attempted, filename)]
           ELSE RemoveLoop(r.store, prefix, filelist, i + 1, failNames,
                           Append(attempted, filename))

\* RemoveDirs: Filelist(path), then Remove of every listed name.
RemoveDirs(st, prefix, path, listFails, failNames) ==
  LET fl == Filelist(st, prefix, path, listFails)
  IN  IF fl.err # Nil
      THEN [store |-> st, err |-> fl.err, list |-> <<>>, attempted |-> <<>>]
      ELSE LET r == RemoveLoop(st, prefix, fl.list, 1, failNames, <<>>)
           IN  [store |-> r.store, err |-> r.err, list |-> fl.list,
                attempted |-> r.attempted]

\* Variant of RelPath that joins the whole source path.
RelPath_WholePath(publishedDirectory, sourcePath) ==
  Join(publishedDirectory, sourcePath)

\* relPath of LinkFromPool: publishedDirectory / basename(sourcePath).
RelPath(publishedDirectory, sourcePath) ==
  Join(publishedDirectory, <<Base(sourcePath)>>)

\* The test of LinkFromPool for an object that is already published.
\* Variant of SameMD5 that takes any existing object for the same file.
SameMD5_AnyObject(destinationMD5, sourceMD5) == destinationMD5 = destinationMD5

SameMD5(destinationMD5, sourceMD5) == destinationMD5 = sourceMD5

\* Variant of Refused with the sense of force inverted.
Refused_ForceInverted(force, destinationMD5, sourceMD5) ==
  force /\ destinationMD5 # sourceMD5

\* Variant of Refused that does not look at force.
Refused_ForceIgnored(force, destinationMD5, sourceMD5) ==
  destinationMD5 # sourceMD5

\* The test of LinkFromPool for a conflict it refuses.
Refused(force, destinationMD5, sourceMD5) ==
  ~force /\ destinationMD5 # sourceMD5

\* Variant of LinkFromPool that takes every error of the probe for
\* ObjectNotFound.
LinkFromPool_AnyProbeError(st, prefix, publishedDirectory, sourcePath, sourceMD5, force, probeFails, quoted, putFails) ==
  LET relPath == RelPath(publishedDirectory, sourcePath)
      poolPath == Join(prefix, relPath)
      object == SwiftObject(st, poolPath, probeFails, quoted)
      destinationMD5 == StripQuotes(object.Hash)
  IN  IF object.err = Nil /\ SameMD5(destinationMD5, sourceMD5)
      THEN [store |-> st, err |-> Nil]
      ELSE IF object.err = Nil /\ Refused(force, destinationMD5, sourceMD5)
      THEN [store |-> st, err |-> Errorf("exists", <<poolPath, prefix>>)]
      ELSE PutFile(st, prefix, relPath, sourcePath, putFails)

\* LinkFromPool: probe prefix/relPath, then upload unless the object is
\* already there with the same digest or differs and force is unset.
LinkFromPool(st, prefix, publishedDirectory, sourcePath, sourceMD5, force, probeFails, quoted, putFails) ==
  LET relPath == RelPath(publishedDirectory, sourcePath)
      poolPath == Join(prefix, relPath)
      object == SwiftObject(st, poolPath, probeFails, quoted)
      destinationMD5 == StripQuotes(object.Hash)
  IN  IF object.err # Nil /\ object.err # ObjectNotFound
      THEN [store |-> st,
            err |-> Errorf("information", <<poolPath, prefix, object.err>>)]
      ELSE IF object.err = Nil /\ SameMD5(destinationMD5, sourceMD5)
      THEN [store |-> st, err |-> Nil]
      ELSE IF object.err = Nil /\ Refused(force, destinationMD5, sourceMD5)
      THEN [store |-> st, err |-> Errorf("exists", <<poolPath, prefix>>)]
      ELSE PutFile(st, prefix, relPath, sourcePath, putFails)

\* RenameFile, first half of ObjectMove: copy prefix/oldName to
\* prefix/newName.
RenameCopy(st, prefix, oldName, newName, copyFails) ==
  SwiftObjectCopy(st, Join(prefix, oldName), Join(prefix, newName), copyFails)

\* Variant of RenameDelete that leaves the source in place.
RenameDelete_Skipped(st, prefix, oldName, deleteFails) ==
  [store |-> st, err |-> Nil]

\* RenameFile, second half of ObjectMove: delete prefix/oldName.
RenameDelete(st, prefix, oldName, deleteFails) ==
  SwiftObjectDelete(st, Join(prefix, oldName), deleteFails)

\* ------------------------------------------------------------ the callers

\* The caller makes one call at a time.  pc is its position: "idle" before
\* a call, "copied" inside RenameFile between the two requests of
\* ObjectMove, "returned" when the call is over.  last is the record of the
\* call: its arguments, the faults of the library calls it made, the
\* container before it (pre) and what it returned.  again tells that the
\* call repeats the call before it, which returned nil.
NoCall ==
  [op |-> "none", state |-> "returned", prefix |-> <<>>, path |-> <<>>,
   path2 |-> <<>>, src |-> <<>>, md5 |-> <<>>, force |-> FALSE,
   quoted |-> FALSE, faults |-> {}, failNames |-> {}, pre |-> EmptyStore,
   err |-> Nil, list |-> <<>>, attempted |-> <<>>, again |-> FALSE,
   method |-> "", snapshot |-> ""]

Init ==
  /\ store = EmptyStore
  /\ last = NoCall
  /\ pc = "idle"

Fits(st) == Cardinality(DOMAIN st) <= MaxObjects

FaultSet(names, flags) == {names[i] : i \in {j \in 1..Len(names) : flags[j]}}

CallPutFileOn(storages) ==
  /\ pc = "idle"
  /\ \E prefix \in storages, path \in LPaths, src \in SourcePaths,
        putFails \in BOOLEAN :
       LET r == PutFile(store, prefix, path, src, putFails)
       IN  /\ Fits(r.store)
           /\ store' = r.store
           /\ last' = [NoCall EXCEPT !.op = "PutFile", !.prefix = prefix,
                         !.path = path, !.src = src,
                         !.faults = FaultSet(<<"put">>, <<putFails>>),
                         !.pre = store, !.err = r.err]
  /\ pc' = "returned"

CallPutFile == CallPutFileOn(Storages)

CallRemoveOn(storages) ==
  /\ pc = "idle"
  /\ \E prefix \in storages, path \in LPaths, deleteFails \in BOOLEAN :
       LET r == Remove(store, prefix, path, deleteFails)
       IN  /\ store' = r.store
           /\ last' = [NoCall EXCEPT !.op = "Remove", !.prefix = prefix,
                         !.path = path,
                         !.faults = FaultSet(<<"delete">>, <<deleteFails>>),
                         !.pre = store, !.err = r.err]
  /\ pc' = "returned"

CallRemove == CallRemoveOn(Storages)

CallFilelistOn(storages) ==
  /\ pc = "idle"
  /\ \E prefix \in storages, pfx \in Dirs, listFails \in BOOLEAN :
       LET r == Filelist(store, prefix, pfx, listFails)
       IN  /\ last' = [NoCall EXCEPT !.op = "Filelist", !.prefix = prefix,
                         !.path = pfx,
                         !.faults = FaultSet(<<"list">>, <<listFails>>),
                         !.pre = store, !.err = r.err, !.list = r.list]
  /\ pc' = "returned"
  /\ UNCHANGED store

CallFilelist == CallFilelistOn(Storages)

CallRemoveDirsOn(storages) ==
  /\ pc = "idle"
  /\ \E prefix \in storages, path \in Dirs, listFails \in BOOLEAN,
        failNames \in SUBSET (DOMAIN store) :
       LET r == RemoveDirs(store, prefix, path, listFails, failNames)
       IN  /\ store' = r.store
           /\ last' = [NoCall EXCEPT !.op = "RemoveDirs", !.prefix = prefix,
                         !.path = path,
                         !.faults = FaultSet(<<"list">>, <<listFails>>),
                         !.failNames = failNames,
                         !.pre = store, !.err = r.err, !.list = r.list,
                         !.attempted = r.attempted]
  /\ pc' = "returned"

CallRemoveDirs == CallRemoveDirsOn(Storages)

\* One call of LinkFromPool by the caller.
LinkCall(prefix, publishedDirectory, sourcePath, force, again) ==
  \E probeFails \in BOOLEAN, quoted \in BOOLEAN, putFails \in BOOLEAN :
    LET sourceMD5 == PoolMD5(sourcePath)
        r == LinkFromPool(store, prefix, publishedDirectory, sourcePath,
                          sourceMD5, force, probeFails, quoted, putFails)
    IN  /\ Fits(r.store)
        /\ store' = r.store
        /\ pc' = "returned"
        /\ last' = [NoCall EXCEPT !.op = "LinkFromPool", !.prefix = prefix,
                      !.path = publishedDirectory, !.src = sourcePath,
                      !.md5 = sourceMD5, !.force = force, !.quoted = quoted,
                      !.faults = FaultSet(<<"probe", "put">>,
                                          <<probeFails, putFails>>),
                      !.pre = store, !.err = r.err, !.again = again]

CallLinkFromPoolOn(storages) ==
  /\ pc = "idle"
  /\ \E prefix \in storages, publishedDirectory \in Dirs,
        sourcePath \in SourcePaths, force \in BOOLEAN :
       LinkCall(prefix, publishedDirectory, sourcePath, force, FALSE)

CallLinkFromPool == CallLinkFromPoolOn(Storages)

\* The caller repeats the call of LinkFromPool that has just returned nil.
RepeatLinkFromPool ==
  /\ pc = "returned"
  /\ last.op = "LinkFromPool"
  /\ last.err = Nil
  /\ LinkCall(last.prefix, last.path, last.src, last.force, TRUE)

\* RenameFile up to the return of ObjectCopy: on an error ObjectMove, and
\* with it RenameFile, returns it.
RenameFileCopyOn(storages) ==
  /\ pc = "idle"
  /\ \E prefix \in storages, oldName \in LPaths, newName \in LPaths,
        copyFails \in BOOLEAN :
       LET r == RenameCopy(store, prefix, oldName, newName, copyFails)
       IN  /\ Fits(r.store)
           /\ store' = r.store
           /\ pc' = IF r.err = Nil THEN "copied" ELSE "returned"
           /\ last' = [NoCall EXCEPT !.op = "RenameFile", !.prefix = prefix,
                         !.path = oldName, !.path2 = newName,
                         !.faults = FaultSet(<<"copy">>, <<copyFails>>),
                         !.state = IF r.err = Nil THEN "running" ELSE "returned",
                         !.pre = store, !.err = r.err]

RenameFileCopy == RenameFileCopyOn(Storages)

\* RenameFile from the return of ObjectCopy on: ObjectDelete of the source,
\* whose result ObjectMove returns.
RenameFileDelete ==
  /\ pc = "copied"
  /\ \E deleteFails \in BOOLEAN :
       LET r == RenameDelete(store, last.prefix, last.path, deleteFails)
       IN  /\ store' = r.store
           /\ pc' = "returned"
           /\ last' = [last EXCEPT !.state = "returned", !.err = r.err,
                         !.faults = @ \cup FaultSet(<<"delete">>, <<deleteFails>>)]

\* The process is stopped between the two halves of ObjectMove.
RenameFileInterrupt ==
  /\ pc = "copied"
  /\ pc' = "returned"
  /\ last' = [last EXCEPT !.state = "interrupted"]
  /\ UNCHANGED store

\* The caller takes the result and is ready for its next call.
Return ==
  /\ pc = "returned"
  /\ pc' = "idle"
  /\ last' = NoCall
  /\ UNCHANGED store

Next ==
  \/ CallPutFile
  \/ CallRemove
  \/ CallFilelist
  \/ CallRemoveDirs
  \/ CallLinkFromPool
  \/ RepeatLinkFromPool
  \/ RenameFileCopy
  \/ RenameFileDelete
  \/ RenameFileInterrupt
  \/ Return

Spec == Init /\ [][Next]_vars

\* The same callers, working through the two storages of IsoStorages.
IsoPutFile == CallPutFileOn(IsoStorages)

IsoRemove == CallRemoveOn(IsoStorages)

IsoFilelist == CallFilelistOn(IsoStorages)

IsoRemoveDirs == CallRemoveDirsOn(IsoStorages)

IsoLinkFromPool == CallLinkFromPoolOn(IsoStorages)

IsoRenameFileCopy == RenameFileCopyOn(IsoStorages)

NextIso ==
  \/ IsoPutFile
  \/ IsoRemove
  \/ IsoFilelist
  \/ IsoRemoveDirs
  \/ IsoLinkFromPool
  \/ RepeatLinkFromPool
  \/ IsoRenameFileCopy
  \/ RenameFileDelete
  \/ RenameFileInterrupt
  \/ Return

SpecIso == Init /\ [][NextIso]_vars

\* -------------------------------------------------------------- Publisher

\* The publish operation of section 4.4, on the storage whose root is "/",
\* with the live path as destination: Staging (packages are being linked),
\* Populated, Verified, Promoted, Purging, Done, or Failed.  last.state is
\* the stage, last.list the work left in it (pool paths to link, then stale
\* names to remove), last.faults what went wrong, last.pre the container
\* when the publish began.
PublishStorage == NewPublishedStorage("/")

PublishDirectory == <<>>

IndexPath == Join(PublishDirectory, <<"Release">>)

\* What an index with this content references: file name and checksum of
\* every package of its snapshot.
IndexRefs(content) ==
  {[name |-> RelPath(PublishDirectory, Snapshots[content][i]),
    md5 |-> PoolMD5(Snapshots[content][i])] : i \in DOMAIN Snapshots[content]}

\* The logical paths of the tree of a snapshot: its packages and its index.
TreePaths(snapshot) ==
  {ref.name : ref \in IndexRefs(snapshot)} \cup {IndexPath}

\* Staging: a publish of a snapshot begins.
PublishStart ==
  /\ pc = "idle"
  /\ \E snapshot \in DOMAIN Snapshots, force \in BOOLEAN :
       last' = [NoCall EXCEPT !.op = "Publish", !.state = "Staging",
                  !.prefix = PublishStorage, !.path = PublishDirectory,
                  !.snapshot = snapshot, !.force = force,
                  !.list = Snapshots[snapshot], !.pre = store]
  /\ pc' = "publishing"
  /\ UNCHANGED store

\* LinkFromPool of the next package; its error is collected and the
\* linking goes on.
PublishLink ==
  /\ pc = "publishing" /\ last.state = "Staging" /\ last.list # <<>>
  /\ \E probeFails \in BOOLEAN, quoted \in BOOLEAN, putFails \in BOOLEAN :
       LET sourcePath == Head(last.list)
           r == LinkFromPool(store, last.prefix, last.path, sourcePath,
                             PoolMD5(sourcePath), last.force, probeFails,
                             quoted, putFails)
       IN  /\ store' = r.store
           /\ last' = [last EXCEPT !.list = Tail(@),
                         !.faults = @ \cup (IF r.err = Nil THEN {}
                                            ELSE IF r.err.kind = "exists"
                                            THEN {"conflict"} ELSE {"link"})]
  /\ UNCHANGED pc

\* Every package has been tried: Populated, or Failed when a link did not
\* succeed.
PublishPopulated ==
  /\ pc = "publishing" /\ last.state = "Staging" /\ last.list = <<>>
  /\ last' = [last EXCEPT !.state = IF last.faults = {} THEN "Populated"
                                    ELSE "Failed"]
  /\ pc' = IF last.faults = {} THEN "publishing" ELSE "returned"
  /\ UNCHANGED store

\* Verified: the index of the linked packages has been generated.
PublishVerified ==
  /\ pc = "publishing" /\ last.state = "Populated"
  /\ last' = [last EXCEPT !.state = "Verified"]
  /\ UNCHANGED <<store, pc>>

\* The publish is given up before promotion; what is written stays.
PublishAbort ==
  /\ pc = "publishing" /\ last.state \in {"Staging", "Populated", "Verified"}
  /\ last' = [last EXCEPT !.state = "Failed", !.faults = @ \cup {"aborted"}]
  /\ pc' = "returned"
  /\ UNCHANGED store

\* Promoted: the index, the pointer object of the tree, is written last.
PublishPromote ==
  /\ pc = "publishing" /\ last.state = "Verified"
  /\ \E putFails \in BOOLEAN :
       LET r == PutFile(store, last.prefix, IndexPath, IndexFile(last.snapshot), putFails)
       IN  /\ store' = r.store
           /\ last' = [last EXCEPT !.state = IF r.err = Nil THEN "Promoted"
                                             ELSE "Failed",
                         !.faults = @ \cup (IF r.err = Nil THEN {} ELSE {"index"})]
           /\ pc' = IF r.err = Nil THEN "publishing" ELSE "returned"

\* Purging begins: the stale entries are those of the previous generation's
\* Filelist that are not paths of the new tree.
PublishPurgeStart ==
  /\ pc = "publishing" /\ last.state = "Promoted"
  /\ \E listFails \in BOOLEAN :
       LET fl == Filelist(last.pre, last.prefix, last.path, listFails)
       IN  last' = [last EXCEPT !.state = "Purging",
                      !.list = SelectSeq(fl.list, LAMBDA name :
                                 name \notin TreePaths(last.snapshot)),
                      !.faults = @ \cup (IF fl.err = Nil THEN {} ELSE {"purge"})]
  /\ UNCHANGED <<store, pc>>

\* Remove of the next stale entry; a failure is reported and the purge
\* goes on.
PublishPurge ==
  /\ pc = "publishing" /\ last.state = "Purging" /\ last.list # <<>>
  /\ \E deleteFails \in BOOLEAN :
       LET r == Remove(store, last.prefix, Head(last.list), deleteFails)
       IN  /\ store' = r.store
           /\ last' = [last EXCEPT !.list = Tail(@),
                         !.faults = @ \cup (IF r.err = Nil THEN {} ELSE {"purge"})]
  /\ UNCHANGED pc

\* Done: nothing is left to purge.
PublishDone ==
  /\ pc = "publishing" /\ last.state = "Purging" /\ last.list = <<>>
  /\ last' = [last EXCEPT !.state = "Done"]
  /\ pc' = "returned"
  /\ UNCHANGED store

NextPublish ==
  \/ PublishStart
  \/ PublishLink
  \/ PublishPopulated
  \/ PublishVerified
  \/ PublishAbort
  \/ PublishPromote
  \/ PublishPurgeStart
  \/ PublishPurge
  \/ PublishDone
  \/ Return

SpecPublish == Init /\ [][NextPublish]_vars

\* ------------------------------------------------------------------ Router

\* A segment of a route pattern: a literal text, followed or not by a
\* ':param', which matches what is left of the request segment and cannot
\* be empty.
Lit(text) == [lit |-> text, par |-> FALSE]

Par == [lit |-> "", par |-> TRUE]

\* A route of the group "/api": method, pattern and handler.
Route(method, segs, handler) ==
  [method |-> method, pattern |-> <<Lit("api")>> \o segs, handler |-> handler]

VersionRoutes == <<Route("GET", <<Lit("version")>>, "apiVersion")>>

ReposRoutes ==
  <<Route("GET", <<Lit("repos")>>, "apiReposList"),
    Route("POST", <<Lit("repos")>>, "apiReposCreate"),
    Route("GET", <<Lit("repos"), Par>>, "apiReposShow"),
    Route("PUT", <<Lit("repos"), Par>>, "apiReposEdit"),
    Route("DELETE", <<Lit("repos"), Par>>, "apiReposDrop"),
    Route("GET", <<Lit("repos"), Par, Lit("packages")>>, "apiReposPackagesShow"),
    Route("POST", <<Lit("repos"), Par, Lit("packages")>>, "apiReposPackagesAdd"),
    Route("DELETE", <<Lit("repos"), Par, Lit("packages")>>, "apiReposPackagesDelete"),
    Route("POST", <<Lit("repos"), Par, Lit("file"), Par, Par>>, "apiReposPackageFromFile"),
    Route("POST", <<Lit("repos"), Par, Lit("file"), Par>>, "apiReposPackageFromDir"),
    Route("POST", <<Lit("repos"), Par, Lit("snapshots")>>, "apiSnapshotsCreateFromRepository")>>

MirrorsRoutes ==
  <<Route("POST", <<Lit("mirrors"), Par, Lit("snapshots")>>, "apiSnapshotsCreateFromMirror")>>

\* Variant of FilesRoutes with the upload registered under GET.
FilesRoutes_UploadAsGet ==
  <<Route("GET", <<Lit("files")>>, "apiFilesListDirs"),
    Route("GET", <<Lit("files"), Par>>, "apiFilesUpload"),
    Route("GET", <<Lit("files"), Par>>, "apiFilesListFiles"),
    Route("DELETE", <<Lit("files"), Par>>, "apiFilesDeleteDir"),
    Route("DELETE", <<Lit("files"), Par, Par>>, "apiFilesDeleteFile")>>

FilesRoutes ==
  <<Route("GET", <<Lit("files")>>, "apiFilesListDirs"),
    Route("POST", <<Lit("files"), Par>>, "apiFilesUpload"),
    Route("GET", <<Lit("files"), Par>>, "apiFilesListFiles"),
    Route("DELETE", <<Lit("files"), Par>>, "apiFilesDeleteDir"),
    Route("DELETE", <<Lit("files"), Par, Par>>, "apiFilesDeleteFile")>>

PublishRoutes ==
  <<Route("GET", <<Lit("publish")>>, "apiPublishList"),
    Route("POST", <<Lit("publish"), Par, Lit("repos")>>, "apiPublishRepoOrSnapshot"),
    Route("POST", <<Lit("publish"), Par, Lit("snapshots")>>, "apiPublishRepoOrSnapshot"),
    Route("PUT", <<Lit("publish"), Par, Par>>, "apiPublishUpdateSwitch"),
    Route("DELETE", <<Lit("publish"), Par, Par>>, "apiPublishDrop")>>

SnapshotsRoutes ==
  <<Route("GET", <<Lit("snapshots")>>, "apiSnapshotsList"),
    Route("POST", <<Lit("snapshots")>>, "apiSnapshotsCreate"),
    Route("PUT", <<Lit("snapshots"), Par>>, "apiSnapshotsUpdate"),
    Route("GET", <<Lit("snapshots"), Par>>, "apiSnapshotsShow"),
    Route("GET", <<Lit("snapshots"), Par, Lit("packages")>>, "apiSnapshotsSearchPackages"),
    Route("DELETE", <<Lit("snapshots"), Par>>, "apiSnapshotsDrop"),
    Route("GET", <<Lit("snapshots"), Par, Lit("diff"), Par>>, "apiSnapshotsDiff")>>

PackagesRoutes == <<Route("GET", <<Lit("packages"), Par>>, "apiPackagesShow")>>

GraphRoutes ==
  <<Route("GET", <<[lit |-> "graph.", par |-> TRUE]>>, "apiGraph")>>

\* The routes Router registers, in the order of registration.
Routes ==
  VersionRoutes \o ReposRoutes \o MirrorsRoutes \o FilesRoutes
    \o PublishRoutes \o SnapshotsRoutes \o PackagesRoutes \o GraphRoutes

Methods == {Routes[i].method : i \in DOMAIN Routes}

\* A segment of a request path is a pair <<head, tail>>, standing for the
\* text head followed by tail.  A literal matches the segment that is
\* exactly its text; a parameter after the text lit matches a segment that
\* starts with lit and goes on with a non-empty tail (for the bare ':param',
\* whose lit is empty, any non-empty segment).
SegMatches(seg, pat) ==
  IF pat.par
  THEN IF pat.lit = "" THEN seg # <<"", "">>
       ELSE seg[1] = pat.lit /\ seg[2] # ""
  ELSE seg = <<pat.lit, "">>

PathMatches(path, pattern) ==
  /\ Len(path) = Len(pattern)
  /\ \A i \in 1..Len(path) : SegMatches(path[i], pattern[i])

\* The handlers of the routes of a method that match a request path.
Matching(method, path) ==
  LET hit == SelectSeq(Routes, LAMBDA r : r.method = method /\ PathMatches(path, r.pattern))
  IN  [i \in 1..Len(hit) |-> hit[i].handler]

\* Request paths: at every position, a segment some pattern expects there
\* (its literal, or its literal followed by a value) or another segment;
\* up to one segment longer than the longest pattern.
LongestPattern ==
  CHOOSE n \in {Len(Routes[i].pattern) : i \in DOMAIN Routes} :
    \A i \in DOMAIN Routes : Len(Routes[i].pattern) <= n

RequestSegs(i) ==
  {<<Routes[r].pattern[i].lit, IF Routes[r].pattern[i].par THEN "x" ELSE "">> :
     r \in {q \in DOMAIN Routes : Len(Routes[q].pattern) >= i}}
    \cup {<<"", "x">>}

RECURSIVE PathsOfLength(_)
PathsOfLength(n) ==
  IF n = 0 THEN {<<>>}
  ELSE {Append(p, seg) : p \in PathsOfLength(n - 1), seg \in RequestSegs(n)}

RequestPaths == UNION {PathsOfLength(n) : n \in 1..(LongestPattern + 1)}

\* The router dispatches one request.
Dispatch ==
  /\ pc = "idle"
  /\ \E method \in Methods, path \in RequestPaths :
       last' = [NoCall EXCEPT !.op = "Dispatch", !.method = method,
                  !.path = path, !.list = Matching(method, path)]
  /\ pc' = "returned"
  /\ UNCHANGED store

NextRouter ==
  \/ Dispatch
  \/ Return

SpecRouter == Init /\ [][NextRouter]_vars

\* ------------------------------------------------------------- properties

\* The object name a call of LinkFromPool is about:
\* root prefix / publishedDirectory / basename(sourcePath).
LinkDest == last.prefix \o last.path \o <<last.src[Len(last.src)]>>

IsLink == pc = "returned" /\ last.op = "LinkFromPool"

\* The keys other than k are the same, with the same contents, in st1 and st2.
SameExcept(st1, st2, k) ==
  /\ DOMAIN st1 \ {k} = DOMAIN st2 \ {k}
  /\ \A o \in DOMAIN st1 \ {k} : st1[o] = st2[o]

\* The call found an object at its destination whose digest is not the
\* checksum of the pool entry.
LinkConflict ==
  /\ IsLink
  /\ "probe" \notin last.faults
  /\ LinkDest \in DOMAIN last.pre
  /\ MD5(last.pre[LinkDest]) # last.md5

\* C1: a call of LinkFromPool that repeats, with the same arguments, a call
\* that returned nil, returns nil and leaves the container (names and
\* contents) as the first call left it, with force set or not, unless the
\* probe request itself fails.
C1_LinkIdempotent ==
  (IsLink /\ last.again /\ "probe" \notin last.faults)
    => (last.err = Nil /\ store = last.pre)

\* A repeated call without force, answered with a quoted digest, on an
\* object the first call has put there.
C1_Witness ==
  /\ IsLink /\ last.again /\ last.faults = {}
  /\ ~last.force /\ last.quoted
  /\ LinkDest \in DOMAIN store
  /\ last.err = Nil

\* C2: when the destination holds an object whose digest differs from the
\* pool entry's checksum, LinkFromPool without force returns an error and
\* the container is unchanged.
C2_ConflictRefused ==
  (LinkConflict /\ ~last.force)
    => (last.err.kind = "exists" /\ store = last.pre)

C2_Witness ==
  /\ LinkConflict /\ ~last.force
  /\ last.src \in DOMAIN LocalFiles
  /\ last.err.kind = "exists"
  /\ Cardinality(DOMAIN store) = MaxObjects

\* C3: when the destination holds an object whose digest differs from the
\* pool entry's checksum, LinkFromPool with force uploads the pool file
\* over it: the call returns nil and the object at the destination is the
\* pool file, whose digest is the entry's checksum (the pool file exists
\* and no request fails).
C3_ForceOverwrites ==
  (LinkConflict /\ last.force /\ last.faults = {}
     /\ last.src \in DOMAIN LocalFiles)
    => /\ last.err = Nil
       /\ LinkDest \in DOMAIN store
       /\ store[LinkDest] = LocalFiles[last.src]
       /\ MD5(store[LinkDest]) = last.md5

C3_Witness ==
  /\ LinkConflict /\ last.force /\ last.faults = {}
  /\ last.src \in DOMAIN LocalFiles
  /\ last.err = Nil
  /\ store[LinkDest] # last.pre[LinkDest]

\* C4: when no object exists at root prefix / publishedDirectory /
\* basename(sourcePath), LinkFromPool, with force or without, uploads the
\* pool file to exactly that name and returns nil (or, when the pool file
\* cannot be opened or the upload fails, returns an error and changes
\* nothing); no other name is created, changed or deleted.
C4_AbsentUploads ==
  (IsLink /\ "probe" \notin last.faults /\ LinkDest \notin DOMAIN last.pre)
    => /\ SameExcept(last.pre, store, LinkDest)
       /\ IF "put" \notin last.faults /\ last.src \in DOMAIN LocalFiles
          THEN /\ last.err = Nil
               /\ LinkDest \in DOMAIN store
               /\ store[LinkDest] = LocalFiles[last.src]
          ELSE last.err # Nil /\ store = last.pre

C4_Witness ==
  /\ IsLink /\ last.faults = {} /\ LinkDest \notin DOMAIN last.pre
  /\ last.prefix # <<>> /\ last.path # <<>>
  /\ last.pre # EmptyStore
  /\ last.err = Nil
  /\ LinkDest \in DOMAIN store

\* path is at or under the directory dir.
IsUnder(path, dir) ==
  Len(dir) <= Len(path) /\ SubSeq(path, 1, Len(dir)) = dir

\* The object name key without the leading root prefix.
Stripped(key, prefix) == SubSeq(key, Len(prefix) + 1, Len(key))

\* What a call of Filelist(dir) on the storage of the last call returns in
\* the current state when the listing request succeeds.
ListedNow(dir) == Range(Filelist(store, last.prefix, dir, FALSE).list)

\* C5: after PutFile(path, content) returned nil, Filelist(prefix) includes
\* path for every prefix path is under; after Remove(path) returned nil it
\* does not, whatever the root prefix of the storage.
C5_RoundTrip ==
  /\ (pc = "returned" /\ last.op = "PutFile" /\ last.err = Nil)
       => \A dir \in Dirs : IsUnder(last.path, dir) => last.path \in ListedNow(dir)
  /\ (pc = "returned" /\ last.op = "Remove" /\ last.err = Nil)
       => \A dir \in Dirs : IsUnder(last.path, dir) => last.path \notin ListedNow(dir)

\* C6: Filelist(prefix) returns exactly the objects whose name is at or
\* under root prefix / prefix, each with the root prefix stripped off.
C6_FilelistUnderPrefix ==
  (pc = "returned" /\ last.op = "Filelist" /\ last.err = Nil)
    => Range(last.list) =
         {Stripped(k, last.prefix) :
            k \in {o \in DOMAIN store : IsUnder(o, last.prefix \o last.path)}}

RenameOld == last.prefix \o last.path

RenameNew == last.prefix \o last.path2

\* The content RenameFile was asked to move is at name in the container.
Holds(name) ==
  name \in DOMAIN store /\ store[name] = last.pre[RenameOld]

\* C7: from the start of RenameFile(oldName, newName) on, between its
\* requests, when a request fails, when it is interrupted and when it has
\* returned, the content of the file is at oldName or at newName.
C7_RenameNeverLoses ==
  (last.op = "RenameFile" /\ RenameOld \in DOMAIN last.pre)
    => (Holds(RenameOld) \/ Holds(RenameNew))

C9_RemoveDirsEmpties ==
  (pc = "returned" /\ last.op = "RemoveDirs" /\ last.err = Nil)
    => /\ \A k \in DOMAIN store : ~IsUnder(k, last.prefix \o last.path)
       /\ ListedNow(last.path) = {}

\* A successful RemoveDirs of a directory that held objects.
C9_Witness ==
  /\ pc = "returned" /\ last.op = "RemoveDirs" /\ last.err = Nil
  /\ last.path # <<>>
  /\ Cardinality({k \in DOMAIN last.pre :
                    IsUnder(k, last.prefix \o last.path)}) = MaxObjects

\* C10: when the deletion of an enumerated entry fails RemoveDirs goes on:
\* it attempts the deletion of every enumerated entry (and returns the
\* first error).
C10_RemoveDirsBestEffort ==
  (pc = "returned" /\ last.op = "RemoveDirs" /\ "list" \notin last.faults)
    => last.attempted = last.list

\* C11: Remove(path) on a path at which no object exists returns nil and
\* leaves the container unchanged (so a second Remove in a row returns nil).
C11_RemoveIdempotent ==
  (pc = "returned" /\ last.op = "Remove" /\ last.faults = {}
     /\ last.prefix \o last.path \notin DOMAIN last.pre)
    => (last.err = Nil /\ store = last.pre)

\* C15: after PutFile(path, sourceFile) returned nil the object at root
\* prefix / path holds the content of sourceFile, whatever was there, and
\* every other name is unchanged; when sourceFile cannot be opened PutFile
\* returns an error and the container is unchanged.
C15_PutFileOneKey ==
  (pc = "returned" /\ last.op = "PutFile")
    => LET key == last.prefix \o last.path
       IN  /\ last.err = Nil
                => /\ key \in DOMAIN store
                   /\ store[key] = LocalFiles[last.src]
                   /\ SameExcept(last.pre, store, key)
           /\ last.src \notin DOMAIN LocalFiles
                => (last.err # Nil /\ store = last.pre)

\* PutFile over an object of another content, under a root prefix, next to
\* another object.
C15_Witness ==
  /\ pc = "returned" /\ last.op = "PutFile" /\ last.err = Nil
  /\ last.prefix # <<>>
  /\ last.prefix \o last.path \in DOMAIN last.pre
  /\ last.pre[last.prefix \o last.path] # store[last.prefix \o last.path]
  /\ Cardinality(DOMAIN store) = MaxObjects

\* C16: the error LinkFromPool returns on a conflict without force names
\* the destination path, the digest of the existing object and the
\* checksum of the pool entry.
C16_ConflictErrorNames ==
  (LinkConflict /\ ~last.force)
    => /\ last.err.kind = "exists"
       /\ LinkDest \in Range(last.err.args)
       /\ MD5(last.pre[LinkDest]) \in Range(last.err.args)
       /\ last.md5 \in Range(last.err.args)

\* C17: when the probe of the destination fails for another reason than
\* ObjectNotFound, LinkFromPool returns an error, uploads nothing and
\* leaves the container unchanged, with force set or not.
C17_ProbeErrorFatal ==
  (IsLink /\ "probe" \in last.faults)
    => (last.err.kind = "information" /\ store = last.pre)

\* A failed probe with force set, of a destination that holds no object,
\* for a pool file that could have been uploaded.
C17_Witness ==
  /\ IsLink /\ last.faults = {"probe"} /\ last.force
  /\ last.src \in DOMAIN LocalFiles
  /\ LinkDest \notin DOMAIN last.pre
  /\ last.err # Nil
  /\ Cardinality(DOMAIN store) < MaxObjects

\* C18: RemoveDirs(path) neither deletes nor attempts to delete an object
\* whose name is not under root prefix / path: those objects are the same
\* before and after the call, whether it returns nil or an error.
C18_RemoveDirsFrame ==
  (pc = "returned" /\ last.op = "RemoveDirs")
    => LET target == last.prefix \o last.path
       IN  /\ \A k \in DOMAIN last.pre :
                ~IsUnder(k, target)
                  => (k \in DOMAIN store /\ store[k] = last.pre[k])
           /\ \A i \in 1..Len(last.attempted) :
                IsUnder(last.prefix \o last.attempted[i], target)

\* The root prefix of the other storage of IsoStorages.
OtherPrefix == CHOOSE p \in IsoStorages : p # last.prefix

\* C12: with two storages on one container whose root prefixes differ and
\* are not nested, a call on one storage (PutFile, Remove, RemoveDirs,
\* LinkFromPool, Filelist, RenameFile) neither writes nor deletes an object
\* under the other storage's prefix, nor returns one in a listing.
C12_Isolation ==
  (last.op # "none")
    => /\ \A k \in DOMAIN last.pre \cup DOMAIN store :
            IsUnder(k, OtherPrefix)
              => /\ k \in DOMAIN last.pre
                 /\ k \in DOMAIN store
                 /\ store[k] = last.pre[k]
       /\ last.op = "Filelist"
            => \A i \in 1..Len(last.list) : ~IsUnder(last.list[i], OtherPrefix)

\* A reader of the container st finds, at every name its index references,
\* an object.
IndexResolves(st) ==
  IndexPath \in DOMAIN st
    => \A ref \in IndexRefs(st[IndexPath]) : ref.name \in DOMAIN st

\* A reader of the container st finds a complete tree: every object its
\* index references, with the checksum the index records.
TreeComplete(st) ==
  IndexPath \in DOMAIN st
    => \A ref \in IndexRefs(st[IndexPath]) :
         /\ ref.name \in DOMAIN st
         /\ MD5(st[ref.name]) = ref.md5

BeforePromoted == {"Staging", "Populated", "Verified", "Failed"}

AfterPromoted == {"Promoted", "Purging", "Done"}

C19_RouteUnambiguous ==
  (pc = "returned" /\ last.op = "Dispatch") => Len(last.list) <= 1

\* POST /api/repos/x/file/x, which only the directory route takes.
C19_Witness ==
  /\ pc = "returned" /\ last.op = "Dispatch"
  /\ last.method = "POST"
  /\ Len(last.path) = Len(ReposRoutes[10].pattern)
  /\ last.list = <<"apiReposPackageFromDir">>

====
